---- MODULE Spec2Model ----
(***************************************************************************)
(* ArduinoHuffman: the static Huffman codec of huffman_compression.cpp.    *)
(* compress_file builds a frequency table, a Huffman tree, a dictionary,   *)
(* and writes [dictionary header][packed payload]; decompress_file         *)
(* rebuilds the tree from the header and walks payload bits through it.    *)
(*                                                                         *)
(* A tree is a function from paths (sequences over {0,1}: 0 = left,        *)
(* 1 = right) to nodes [character, frequency]; a node has a left child     *)
(* exactly when its path extended by 0 is in the domain. A null            *)
(* shared_ptr<Node> is the tree with no nodes.                             *)
(***************************************************************************)
EXTENDS Integers, Sequences, FiniteSets, TLC

\* ---------------------------------------------------------------- bounds
\* Longest dataset handed to compress_file.
MaxLen == 4
\* Largest value an uninitialised code_length is drawn from (besides -1).
MaxGarbageLen == 1

\* ------------------------------------------------------ program constants
NUM_CHAR == 256
PLUS == 43
CHAR_0 == 48
CHAR_1 == 49
\* Bits in a byte: the packer emits a byte when bit_pos == 8.
BYTE_BITS == 8

\* Byte values the datasets are drawn from: 'a', 'b' and a byte above 127.
Alphabet == {97, 98, 200}
\* Values an uninitialised char may hold.
GarbageChars == {0, 97}

Bytes == 0 .. (NUM_CHAR - 1)

RECURSIVE SeqsUpTo(_, _)
SeqsUpTo(S, n) ==
    IF n = 0 THEN {<<>>}
    ELSE LET shorter == SeqsUpTo(S, n - 1)
         IN shorter \cup {Append(s, x) : s \in {t \in shorter : Len(t) = n - 1}, x \in S}

Datasets == SeqsUpTo(Alphabet, MaxLen)

\* A file that does not exist.
NoFile == <<-1>>

\* ------------------------------------------------------------- char casts
\* static_cast<char>(n). char is taken as signed, as g++ has it on x86 and AVR;
\* where it is unsigned the casts differ only for values above 127.
ToChar(n) == ((n + 128) % 256) - 128
\* static_cast<unsigned char>(c): the byte a char is stored as.
ToUChar(c) == c % 256

\* ------------------------------------------------------------------ Node
Node(ch, freq) == [character |-> ch, frequency |-> freq]
Nil == <<>>
Leaf(ch, freq) == [p \in {<<>>} |-> Node(ch, freq)]
HasLeft(t, p) == Append(p, 0) \in DOMAIN t
HasRight(t, p) == Append(p, 1) \in DOMAIN t
IsLeaf(t, p) == ~HasLeft(t, p) /\ ~HasRight(t, p)

\* Merge without newNode->right = right.
MergeLeftOnly(left, right) ==
    [p \in {<<>>} \cup {<<0>> \o q : q \in DOMAIN left} |->
        IF p = <<>> THEN Node(PLUS, left[<<>>].frequency + right[<<>>].frequency)
        ELSE left[Tail(p)]]

\* newNode = Node('+', left->frequency + right->frequency) with both children.
Merge(left, right) ==
    [p \in {<<>>} \cup {<<0>> \o q : q \in DOMAIN left}
                  \cup {<<1>> \o q : q \in DOMAIN right} |->
        IF p = <<>> THEN Node(PLUS, left[<<>>].frequency + right[<<>>].frequency)
        ELSE IF Head(p) = 0 THEN left[Tail(p)] ELSE right[Tail(p)]]

\* Node::Compare orders by frequency alone: top() is a node no other node of
\* the queue has a smaller frequency than. Which of several such nodes it is
\* the code leaves to the heap layout of std::priority_queue.
IsTop(pq, n) == n \in pq /\ \A m \in pq : ~(n[<<>>].frequency > m[<<>>].frequency)

\* ------------------------------------------------------------- compress
\* The two 256-slot arrays, frequency (unsigned int) and dict (std::string),
\* are functions that leave out every slot still at its initial value, 0 or
\* the empty string; CountOf and CodeOf read a slot.
CountOf(frequency, b) == IF b \in DOMAIN frequency THEN frequency[b] ELSE 0
CodeOf(dict, b) == IF b \in DOMAIN dict THEN dict[b] ELSE <<>>

\* frequency.fill(0).
init_frequency == <<>>

\* for (ch : text) frequency[ch]++: every slot grows by the number of
\* positions of text holding its byte.
fill_frequency(text, frequency) ==
    LET count(b) == CountOf(frequency, b) + Cardinality({k \in 1 .. Len(text) : text[k] = b})
    IN [b \in {c \in Bytes : count(c) > 0} |-> count(b)]

\* The leaves pushed for every byte of nonzero frequency.
InitialQueue(frequency) ==
    {Leaf(i, CountOf(frequency, i)) : i \in {j \in Bytes : CountOf(frequency, j) > 0}}

\* The assignments dict[root->character] = code that generate_dictionary
\* makes below the node at path p, in the order it makes them: a leaf assigns
\* its code, any other node recurses left with code + '0', then right with
\* code + '1'.
RECURSIVE Assignments(_, _, _)
Assignments(t, p, code) ==
    IF IsLeaf(t, p) THEN <<<<t[p].character, code>>>>
    ELSE (IF HasLeft(t, p) THEN Assignments(t, Append(p, 0), Append(code, CHAR_0))
          ELSE <<>>)
         \o (IF HasRight(t, p) THEN Assignments(t, Append(p, 1), Append(code, CHAR_1))
             ELSE <<>>)

\* generate_dictionary(root, code, dict): dict after those assignments, a
\* later one overwriting an earlier one to the same slot.
generate_dictionary(t, p, code, dict) ==
    LET made == Assignments(t, p, code)
        At(b) == {k \in 1 .. Len(made) : made[k][1] = b}
        Last(b) == CHOOSE k \in At(b) : \A j \in At(b) : j <= k
        result(b) == IF At(b) = {} THEN CodeOf(dict, b) ELSE made[Last(b)][2]
    IN [b \in {c \in Bytes : result(c) # <<>>} |-> result(b)]

\* std::array<std::string, NUM_CHAR> dict: every slot the empty string.
EmptyDict == <<>>

\* encoded += dict[ch] for the chars text[lo .. hi] in order (split in halves
\* to keep the evaluation shallow).
RECURSIVE EncodeRange(_, _, _, _)
EncodeRange(text, dict, lo, hi) ==
    IF lo > hi THEN <<>>
    ELSE IF lo = hi THEN CodeOf(dict, text[lo])
    ELSE LET mid == (lo + hi) \div 2
         IN EncodeRange(text, dict, lo, mid) \o EncodeRange(text, dict, mid + 1, hi)

encode_text(text, dict) == EncodeRange(text, dict, 1, Len(text))

\* ostream::write(s, n): the first n chars of s.
WriteChars(s, n) == IF n <= 0 THEN <<>> ELSE SubSeq(s, 1, n)

\* The symbol-count byte: static_cast<char>(count of non-empty codes).
DictSize(dict) == ToChar(Cardinality({i \in Bytes : CodeOf(dict, i) # <<>>}))

\* One turn of for (i = 0; i < NUM_CHAR; ++i): character, length, code chars.
WriteEntry(dict, i) ==
    IF CodeOf(dict, i) # <<>>
    THEN <<ToUChar(ToChar(i)), ToUChar(ToChar(Len(dict[i])))>>
         \o WriteChars(dict[i], ToChar(Len(dict[i])))
    ELSE <<>>

\* The turns for i = lo .. hi in ascending order (split in halves to keep the
\* evaluation shallow).
RECURSIVE WriteEntries(_, _, _)
WriteEntries(dict, lo, hi) ==
    IF lo = hi THEN WriteEntry(dict, lo)
    ELSE LET mid == (lo + hi) \div 2
         IN WriteEntries(dict, lo, mid) \o WriteEntries(dict, mid + 1, hi)

Header(dict) == <<ToUChar(DictSize(dict))>> \o WriteEntries(dict, 0, NUM_CHAR - 1)

Pow2(n) == 2 ^ n

\* The value buffer has after the bits bits[from .. to] were OR-ed in, bit
\* number k of them at 1 << (7 - bit_pos) with bit_pos = k - from.
RECURSIVE BufferOf(_, _, _)
BufferOf(bits, from, to) ==
    IF from > to THEN 0
    ELSE BufferOf(bits, from, to - 1)
         + (IF bits[to] = CHAR_1 THEN Pow2(BYTE_BITS - 1 - (to - from)) ELSE 0)

\* The bit-packing loop: a byte goes out whenever bit_pos reaches 8, and a last
\* partial byte when bit_pos > 0 at the end; its unused low bits stay 0.
PackBits(bits) ==
    LET n == Len(bits)
        nbytes == (n + BYTE_BITS - 1) \div BYTE_BITS
        last(j) == IF j * BYTE_BITS < n THEN j * BYTE_BITS ELSE n
    IN [j \in 1 .. nbytes |-> BufferOf(bits, (j - 1) * BYTE_BITS + 1, last(j))]

write_compressed_file(dict, encoded_text) == Header(dict) \o PackBits(encoded_text)

\* ----------------------------------------------------------- decompress
\* Walking one dictionary entry's code from the root: a '0' goes left, any
\* other char goes right, missing nodes are created as Node('+', 0), and the
\* node reached gets the entry's character.
CodePath(code) == [k \in 1 .. Len(code) |-> IF code[k] = CHAR_0 THEN 0 ELSE 1]
Prefixes(path) == {SubSeq(path, 1, n) : n \in 0 .. Len(path)}
InsertEntry(t, code, character) ==
    LET path == CodePath(code)
    IN [q \in DOMAIN t \cup Prefixes(path) |->
           LET old == IF q \in DOMAIN t THEN t[q] ELSE Node(PLUS, 0)
           IN IF q = path THEN Node(ToUChar(character), old.frequency) ELSE old]

\* istream::read of n bytes at pos: what is there, NUL-filled (the buffer
\* code.resize(n) zeroed) when the stream has failed or runs out.
Available(contents, p, isFailed, n) ==
    IF isFailed THEN 0
    ELSE IF Len(contents) - p < n THEN Len(contents) - p ELSE n
ReadChars(contents, p, isFailed, n) ==
    LET got == Available(contents, p, isFailed, n)
    IN SubSeq(contents, p + 1, p + got) \o [k \in 1 .. (n - got) |-> 0]

\* Bit i of a payload byte: (buffer & (1 << i)) != 0.
Bit(b, k) == (b \div Pow2(k)) % 2

\* Copies of a compressed file cut short inside its dictionary header.
Truncations(contents, headerLen) == {SubSeq(contents, 1, n) : n \in 1 .. (headerLen - 1)}

\* ----------------------------------------------------------------- state
VARIABLES
    dataset,         \* the text handed to compress_file
    file,            \* the compressed file on disk
    out,             \* the decompressed output file on disk
    pc,              \* where the running call is
    status,          \* how the last call ended
    frequency, pq, huffman_tree, dict,              \* compress_file's locals
    infile, pos, failed, root, dict_size, i,        \* decompress_file's locals
    encoded_length, decoded_text, current, buffer, biti, bit_count

compressVars == <<frequency, pq, huffman_tree, dict>>
decompressVars == <<infile, pos, failed, root, dict_size, i,
                    encoded_length, decoded_text, current, buffer, biti, bit_count>>
vars == <<dataset, file, out, pc, status, compressVars, decompressVars>>

NoDecompress ==
    /\ infile = <<>> /\ pos = 0 /\ failed = FALSE /\ root = Nil
    /\ dict_size = 0 /\ i = 0 /\ encoded_length = 0 /\ decoded_text = <<>>
    /\ current = <<>> /\ buffer = 0 /\ biti = 0 /\ bit_count = 0

\* decompress_file's locals are gone when it returns.
DropDecompress ==
    /\ infile' = <<>> /\ pos' = 0 /\ failed' = FALSE /\ root' = Nil
    /\ dict_size' = 0 /\ i' = 0 /\ encoded_length' = 0 /\ decoded_text' = <<>>
    /\ current' = <<>> /\ buffer' = 0 /\ biti' = 0 /\ bit_count' = 0

Init ==
    /\ dataset \in Datasets
    /\ file = NoFile /\ out = NoFile
    /\ pc = "idle" /\ status = "none"
    /\ frequency = init_frequency /\ pq = {} /\ huffman_tree = Nil /\ dict = EmptyDict
    /\ NoDecompress

\* ------------------------------------------------- compress_file, by step
\* Lines 169-52: the frequency table and the queue of leaves.
compress_file ==
    /\ pc = "idle"
    /\ frequency' = fill_frequency(dataset, init_frequency)
    /\ pq' = InitialQueue(frequency')
    /\ huffman_tree' = Nil /\ dict' = EmptyDict
    /\ pc' = "build"
    /\ status' = "compressing"
    /\ UNCHANGED <<dataset, file, out, decompressVars>>

\* One turn of while (pq.size() > 1).
build_merge ==
    /\ pc = "build" /\ Cardinality(pq) > 1
    /\ \E left \in pq : \E right \in pq \ {left} :
          /\ IsTop(pq, left)
          /\ IsTop(pq \ {left}, right)
          /\ pq' = (pq \ {left, right}) \cup {Merge(left, right)}
    /\ UNCHANGED <<dataset, file, out, pc, status, frequency, huffman_tree, dict,
                   decompressVars>>

\* return pq.top(): on an empty queue the behaviour is undefined, the call
\* faults or goes on with a null root.
build_return ==
    /\ pc = "build" /\ Cardinality(pq) <= 1
    /\ \/ /\ pq # {}
          /\ huffman_tree' \in pq
          /\ pc' = "built"
       \/ /\ pq = {}
          /\ huffman_tree' = Nil
          /\ pc' \in {"fault", "built"}
    /\ pq' = {}
    /\ UNCHANGED <<dataset, file, out, status, frequency, dict, decompressVars>>

\* generate_dictionary(huffman_tree, "", dict): root->left on a null root is
\* undefined, the call faults or goes on with the dictionary untouched.
generate ==
    /\ pc = "built"
    /\ IF huffman_tree # Nil
       THEN /\ dict' = generate_dictionary(huffman_tree, <<>>, <<>>, EmptyDict)
            /\ pc' = "generated"
       ELSE /\ dict' = EmptyDict
            /\ pc' \in {"fault", "generated"}
    /\ UNCHANGED <<dataset, file, out, status, frequency, pq, huffman_tree,
                   decompressVars>>

\* encode_text and write_compressed_file.
write_file ==
    /\ pc = "generated"
    /\ file' = write_compressed_file(dict, encode_text(dataset, dict))
    /\ status' = "compressed"
    /\ pc' = "idle"
    /\ UNCHANGED <<dataset, out, compressVars, decompressVars>>

\* ----------------------------------------------- decompress_file, by step
\* ifstream::is_open() is false: "ERROR OPENING HUFFMAN FILE."
open_error ==
    /\ pc = "idle" /\ file = NoFile
    /\ status' = "open_error"
    /\ UNCHANGED <<dataset, file, out, pc, compressVars, decompressVars>>

\* Lines 275-284 and 193-194: open the file, make the root Node('+', 0),
\* read the symbol count.
decompress_open(contents) ==
    /\ pc = "idle" /\ file # NoFile
    /\ infile' = contents
    /\ dict_size' = ToChar(contents[1])
    /\ pos' = 1 /\ failed' = FALSE
    /\ root' = Leaf(PLUS, 0)
    /\ i' = 0 /\ encoded_length' = 0 /\ decoded_text' = <<>>
    /\ current' = <<>> /\ buffer' = 0 /\ biti' = 0 /\ bit_count' = 0
    /\ status' = "decompressing"
    /\ pc' = "read_dict"
    /\ UNCHANGED <<dataset, file, out, compressVars>>

\* decompress_file on the file compress_file wrote, or on a copy of it cut
\* short inside its header.
decompress_file ==
    /\ pc = "idle" /\ file # NoFile
    /\ \E contents \in {file} \cup Truncations(file, Len(Header(dict))) :
          decompress_open(contents)

\* decompress_file on the file compress_file wrote, by a caller that
\* decompresses once.
decompress_intact == out = NoFile /\ decompress_open(file)

\* One turn of for (i < dict_size): read character, code_length and the code,
\* then insert. A read on a failed or exhausted stream stores nothing, so the
\* local keeps an indeterminate value; code.resize of a negative char throws
\* std::length_error, which nothing catches.
read_entry ==
    /\ pc = "read_dict" /\ i < dict_size
    /\ \E gch \in GarbageChars, glen \in -1 .. MaxGarbageLen :
        LET ok1 == ~failed /\ pos < Len(infile)
            character == IF ok1 THEN ToChar(infile[pos + 1]) ELSE gch
            pos1 == IF ok1 THEN pos + 1 ELSE pos
            ok2 == ok1 /\ pos1 < Len(infile)
            code_length == IF ok2 THEN ToChar(infile[pos1 + 1]) ELSE glen
            pos2 == IF ok2 THEN pos1 + 1 ELSE pos1
            got == Available(infile, pos2, ~ok2, code_length)
        IN IF code_length < 0
           THEN /\ pc' = "fault"
                /\ pos' = pos2 /\ failed' = ~ok2
                /\ UNCHANGED <<root, i>>
           ELSE /\ root' = InsertEntry(root, ReadChars(infile, pos2, ~ok2, code_length),
                                       character)
                /\ pos' = pos2 + got
                /\ failed' = (~ok2 \/ got < code_length)
                /\ i' = i + 1
                /\ pc' = pc
    /\ UNCHANGED <<dataset, file, out, status, compressVars, infile, dict_size,
                   encoded_length, decoded_text, current, buffer, biti, bit_count>>

\* Lines 287-290 and 236-240: seekg(0, end), tellg, seekg(-1, cur). On a
\* failed stream the seeks do nothing and tellg gives -1.
seek_length ==
    /\ pc = "read_dict" /\ i >= dict_size
    /\ encoded_length' = (IF failed THEN -1 ELSE Len(infile))
    /\ pos' = (IF failed THEN pos ELSE Len(infile) - 1)
    /\ decoded_text' = <<>> /\ current' = <<>> /\ bit_count' = 0
    /\ pc' = "decode"
    /\ UNCHANGED <<dataset, file, out, status, compressVars, infile, failed, root,
                   dict_size, i, buffer, biti>>

\* while (infile.read(&buffer, 1)): the next byte, or the end of the loop.
decode_read ==
    /\ pc = "decode"
    /\ \/ /\ ~failed /\ pos < Len(infile)
          /\ buffer' = infile[pos + 1]
          /\ pos' = pos + 1
          /\ biti' = 7
          /\ pc' = "decode_bits"
          /\ UNCHANGED failed
       \/ /\ failed \/ pos >= Len(infile)
          /\ failed' = TRUE
          /\ pc' = "write_out"
          /\ UNCHANGED <<buffer, pos, biti>>
    /\ UNCHANGED <<dataset, file, out, status, compressVars, infile, root, dict_size,
                   i, encoded_length, decoded_text, current, bit_count>>

\* One turn of for (i = 7; i >= 0; --i). Stepping to a child that is not
\* there makes current null, and current->left is then undefined: the call
\* faults, or reads garbage that looks like a leaf.
decode_bit ==
    /\ pc = "decode_bits"
    /\ LET next == Append(current, Bit(buffer, biti))
       IN \/ /\ next \in DOMAIN root
             /\ decoded_text' = (IF IsLeaf(root, next)
                                 THEN Append(decoded_text, root[next].character)
                                 ELSE decoded_text)
             /\ current' = (IF IsLeaf(root, next) THEN <<>> ELSE next)
             /\ bit_count' = bit_count + 1
             /\ IF bit_count' >= encoded_length \/ biti = 0
                THEN pc' = "decode" /\ UNCHANGED biti
                ELSE pc' = pc /\ biti' = biti - 1
          \/ /\ next \notin DOMAIN root
             /\ \/ /\ pc' = "fault"
                   /\ UNCHANGED <<decoded_text, current, bit_count, biti>>
                \/ /\ \E g \in GarbageChars : decoded_text' = Append(decoded_text, g)
                   /\ current' = <<>>
                   /\ bit_count' = bit_count + 1
                   /\ IF bit_count' >= encoded_length \/ biti = 0
                      THEN pc' = "decode" /\ UNCHANGED biti
                      ELSE pc' = pc /\ biti' = biti - 1
    /\ UNCHANGED <<dataset, file, out, status, compressVars, infile, pos, failed, root,
                   dict_size, i, encoded_length, buffer>>

\* Lines 296-307: outfile << decoded_text, "File decompressed successfully."
write_output ==
    /\ pc = "write_out"
    /\ out' = decoded_text
    /\ status' = "decompressed"
    /\ pc' = "idle"
    /\ DropDecompress
    /\ UNCHANGED <<dataset, file, compressVars>>

Next ==
    \/ compress_file \/ build_merge \/ build_return \/ generate \/ write_file
    \/ open_error \/ decompress_file \/ read_entry \/ seek_length \/ decode_read \/ decode_bit
    \/ write_output

Spec == Init /\ [][Next]_vars

\* ------------------------------------------------------- wide alphabets
\* Datasets holding each of the bytes 0 .. 2^m - 1 once, 1 <= m <= 8.
\* Their leaves all weigh 1, so every tree build_huffman_tree can return is
\* the complete tree of depth m; WideTree(m) is the one whose leaf for byte b
\* sits at the path spelling b in binary.
WideDepths == 1 .. BYTE_BITS
WideDataset(m) == [k \in 1 .. Pow2(m) |-> k - 1]
RECURSIVE PathValue(_)
PathValue(p) == IF p = <<>> THEN 0 ELSE 2 * PathValue(SubSeq(p, 1, Len(p) - 1)) + p[Len(p)]
WideTree(m) ==
    [p \in SeqsUpTo({0, 1}, m) |->
        IF Len(p) = m THEN Node(PathValue(p), 1) ELSE Node(PLUS, Pow2(m - Len(p)))]

\* compress_file has just built the tree of a wide dataset.
WideInit ==
    /\ \E m \in WideDepths :
          /\ dataset = WideDataset(m)
          /\ huffman_tree = WideTree(m)
    /\ frequency = fill_frequency(dataset, init_frequency)
    /\ pq = {} /\ dict = EmptyDict
    /\ file = NoFile /\ out = NoFile
    /\ pc = "built" /\ status = "compressing"
    /\ NoDecompress

WideNext ==
    \/ generate \/ write_file
    \/ decompress_intact \/ read_entry \/ seek_length \/ decode_read \/ decode_bit
    \/ write_output

WideSpec == WideInit /\ [][WideNext]_vars

\* ---------------------------------------------------------------- claims
Symbols(text) == {text[k] : k \in 1 .. Len(text)}
LeafPaths(t) == {p \in DOMAIN t : IsLeaf(t, p)}
Leaves(t) == {<<p, t[p].character>> : p \in LeafPaths(t)}
IsPrefix(a, b) == Len(a) <= Len(b) /\ SubSeq(b, 1, Len(a)) = a
\* Every node but the root has its parent, and has no child or both.
IsFullTree(t) ==
    /\ <<>> \in DOMAIN t
    /\ \A p \in DOMAIN t : p = <<>> \/ SubSeq(p, 1, Len(p) - 1) \in DOMAIN t
    /\ \A p \in DOMAIN t : HasLeft(t, p) <=> HasRight(t, p)
\* decompress_file is running on the file compress_file wrote / on a cut copy.
Intact == status = "decompressing" /\ infile = file
Damaged == status = "decompressing" /\ infile # file

\* C1: round trip. When decompress_file, run on the file compress_file wrote
\* from a non-empty dataset, writes its output, the output is the dataset.
RoundTrip ==
    [][(pc = "write_out" /\ Intact /\ dataset # <<>>) => out' = dataset]_vars

\* C2: decode termination. On the file written from a non-empty dataset,
\* decode_data starts at the first payload byte (right after the header),
\* never walks more bits than the encoded text has, and ends having walked
\* exactly those bits and emitted len(dataset) symbols.
DecodeTermination ==
    (Intact /\ dataset # <<>>) =>
        /\ (pc = "decode" /\ bit_count = 0) => pos = Len(Header(dict))
        /\ pc \in {"decode", "decode_bits", "write_out"} =>
              bit_count <= Len(encode_text(dataset, dict))
        /\ pc = "write_out" =>
              /\ bit_count = Len(encode_text(dataset, dict))
              /\ Len(decoded_text) = Len(dataset)

\* C3: prefix-free codes. After generate_dictionary on a non-empty dataset,
\* every byte of the dataset has a (non-empty) code, and no code is a prefix
\* of, or equal to, the code of another byte.
PrefixFree ==
    (pc = "generated" /\ dataset # <<>>) =>
        \A b \in Symbols(dataset) :
            /\ CodeOf(dict, b) # <<>>
            /\ \A c \in Bytes \ {b} :
                  CodeOf(dict, c) # <<>> => ~IsPrefix(CodeOf(dict, b), CodeOf(dict, c))

SingleSymbolCase ==
    Cardinality(Symbols(dataset)) = 1 =>
        /\ pc # "fault"
        /\ status = "compressed" =>
              \E bit \in {CHAR_0, CHAR_1} :
                  file = <<1, dataset[1], 1, bit>>
                         \o PackBits([k \in 1 .. Len(dataset) |-> bit])
        /\ (pc = "write_out" /\ Intact) => decoded_text = dataset

\* C6: corrupt header rejection. On a file whose header ends before the
\* entries its count declares, decompress_file neither faults nor reaches the
\* writing of a decoded output, and the tree holds no node that a complete
\* entry did not put there.
CorruptHeaderRejected ==
    Damaged =>
        /\ pc \notin {"fault", "write_out"}
        /\ DOMAIN root \subseteq DOMAIN huffman_tree

\* C7: empty input. compress_file on the empty dataset never faults and never
\* holds an absent tree for generate_dictionary to traverse, and
\* decompress_file decodes the empty sequence from its file.
EmptyInput ==
    dataset = <<>> =>
        /\ pc # "fault"
        /\ pc = "built" => huffman_tree # Nil
        /\ (pc = "write_out" /\ Intact) => decoded_text = <<>>

\* C8: symbol-count field. For a dataset of k >= 1 distinct bytes the count
\* read_huffman_dictionary loops to is k, and its loop ends after k entries.
SymbolCount ==
    (Intact /\ dataset # <<>>) =>
        /\ (pc = "read_dict" /\ i = 0) => dict_size = Cardinality(Symbols(dataset))
        /\ pc = "decode" => i = Cardinality(Symbols(dataset))

\* C9: built-tree shape. The tree build_huffman_tree returns for a non-empty
\* dataset is a full binary tree, each byte of the dataset is the character
\* of exactly one leaf, and every leaf holds a byte of the dataset.
TreeShape ==
    (pc = "built" /\ dataset # <<>>) =>
        /\ IsFullTree(huffman_tree)
        /\ \A b \in Symbols(dataset) :
              Cardinality({p \in LeafPaths(huffman_tree) :
                              huffman_tree[p].character = b}) = 1
        /\ \A p \in LeafPaths(huffman_tree) :
              huffman_tree[p].character \in Symbols(dataset)
        /\ Cardinality(LeafPaths(huffman_tree)) = Cardinality(Symbols(dataset))

\* A tree was built from three distinct bytes, two merges deep.
TreeShapeWitness ==
    /\ pc = "built"
    /\ Cardinality(Symbols(dataset)) = 3
    /\ Cardinality(DOMAIN huffman_tree) = 5
    /\ \E p \in LeafPaths(huffman_tree) : Len(p) = 2

\* C10: tree reconstruction. For a dataset of at least two distinct bytes the
\* tree read_huffman_dictionary has rebuilt from the written header has the
\* same leaves, byte for byte at the same paths, as the tree that was built.
Reconstruction ==
    (Intact /\ pc = "decode" /\ Cardinality(Symbols(dataset)) >= 2) =>
        Leaves(root) = Leaves(huffman_tree)

====
